---- MODULE Spec2Model ----
(***************************************************************************)
(* addcache: a process-local key/value cache with optional expiry, Create  *)
(* and Delete hooks and a background cleanup goroutine.                     *)
(*                                                                         *)
(* Threads are the caller goroutines and the cleanup goroutine.  Only the  *)
(* cleanup loop takes s.mu; Set, SetEx, Get, Delete and SetHook touch the  *)
(* maps without it, so their map accesses interleave with the sweep and    *)
(* with each other.  Every access to s.data is one step of the model; the  *)
(* test inside removeIfExpired, which reads only its arguments and the     *)
(* clock, belongs to the step of the lookup before it.  The Go runtime may *)
(* abort the process when it detects unsynchronized map accesses; the      *)
(* model follows the runs in which it does not.                            *)
(* Time is counted in ticks of 1/TicksPerSec second; Unix() truncates a    *)
(* time to whole seconds.                                                  *)
(***************************************************************************)
EXTENDS Integers, Sequences, FiniteSets, TLC

\* ---- bounds of the model
NumCallers == 2
MaxOps == 3
MaxSeqOps == 5
MaxStopOps == 3
MaxSerialOps == 4
MaxTime == 2
MaxDur == 1
MaxHandlers == 1
TicksPerSec == 2

Callers == 1..NumCallers
Sweeper == 0
Threads == Callers \cup {Sweeper}
Keys == {"k1", "k2"}
Values == {"v1", "v2"}
Handlers == {"h1", "h2"}
Durations == (-1)..MaxDur

\* OperationType and its two constants
DeleteOperation == "Delete"
CreateOperation == "Create"
OperationType == {DeleteOperation, CreateOperation}

\* the error Get returns, and Go's nil
ErrCacheKeyNotFound == "exception.cache.key.not-found"
Nil == "nil"

\* SetHook's variadic argument lists, of at least one handler
HandlerLists == UNION {[1..n -> Handlers] : n \in 1..MaxHandlers}

VARIABLES
  data,        \* s.data: a function from the keys present to storageData
  hooks,       \* s.hooks: a function from the kinds present to handler lists
  mu,          \* s.mu is held (only the cleanup loop takes it)
  wg,          \* s.wg's counter
  now,         \* the clock, in ticks
  pc,          \* where each thread is
  key,         \* each thread's key argument / loop variable
  val,         \* each thread's copy of a storageData (value, sd, data)
  op,          \* the exported call (Get or Delete) a caller is inside s.Delete for
  swTodo,      \* keys the running range loop has still to produce
  swSeen,      \* keys the running range loop has produced
  registered,  \* history: every handler passed to SetHook, per kind, in order
  fired,       \* history: how many times processHooks ran, per kind and key
  budget,      \* bound: caller calls the run may still start
  ev           \* history: the step just taken and what it let the caller see

vars == <<data, hooks, mu, wg, now, pc, key, val, op, swTodo, swSeen,
          registered, fired, budget, ev>>

\* ---- storageData
StorageData(p, t, d, v) ==
  [isPersistence |-> p, setTime |-> t, expireDuration |-> d, data |-> v]

NoData == StorageData(TRUE, 0, 0, Nil)

\* time.Time.Unix(): whole seconds, rounded down
Unix(t) == t \div TicksPerSec

\* removeIfExpired without its isPersistence test
removeIfExpiredNoFlag(sd, t) ==
  Unix(sd.setTime + sd.expireDuration) <= Unix(t)

\* removeIfExpired with < for <=
removeIfExpiredStrict(sd, t) ==
  /\ ~sd.isPersistence
  /\ Unix(sd.setTime + sd.expireDuration) < Unix(t)

\* removeIfExpired's result for a copy sd of an entry, at clock reading t
removeIfExpired(sd, t) ==
  /\ ~sd.isPersistence
  /\ Unix(sd.setTime + sd.expireDuration) <= Unix(t)

\* map assignment and delete()
MapPut(m, k, e) == [x \in (DOMAIN m) \cup {k} |-> IF x = k THEN e ELSE m[x]]
MapDel(m, k) == [x \in (DOMAIN m) \ {k} |-> m[x]]

\* a dispatch that ignores the kind and runs the handlers of every kind
processHooksAny(kind, k, v) ==
  (IF DeleteOperation \in DOMAIN hooks
   THEN [i \in 1..Len(hooks[DeleteOperation]) |-> <<DeleteOperation, hooks[DeleteOperation][i], k, v>>]
   ELSE <<>>)
  \o (IF CreateOperation \in DOMAIN hooks
      THEN [i \in 1..Len(hooks[CreateOperation]) |-> <<CreateOperation, hooks[CreateOperation][i], k, v>>]
      ELSE <<>>)

\* processHooks: the calls made, in order, as <<kind, handler, key, value>>
processHooks(kind, k, v) ==
  IF kind \in DOMAIN hooks
  THEN [i \in 1..Len(hooks[kind]) |-> <<kind, hooks[kind][i], k, v>>]
  ELSE <<>>

\* the step record: the action, its thread, its arguments, the handler calls it
\* made and the result it returned to the caller (NoRet when it returned nothing)
Event(a, t, k, v, calls, ret) ==
  [act |-> a, t |-> t, key |-> k, val |-> v, calls |-> calls, ret |-> ret]

NoRet == <<>>

\* NewCacheWithCleanup: empty maps, wg.Add(1), the cleanup goroutine at its select
NewCacheWithCleanup ==
  /\ data = <<>>
  /\ hooks = <<>>
  /\ mu = FALSE
  /\ wg = 1
  /\ now = 0
  /\ pc = [t \in Threads |-> IF t = Sweeper THEN "select" ELSE "idle"]
  /\ key = [t \in Threads |-> Nil]
  /\ val = [t \in Threads |-> NoData]
  /\ op = [t \in Threads |-> Nil]
  /\ swTodo = {}
  /\ swSeen = {}
  /\ registered = [kind \in OperationType |-> <<>>]
  /\ fired = [kind \in OperationType |-> [k \in Keys |-> 0]]
  /\ ev = Event("New", Sweeper, Nil, Nil, <<>>, NoRet)

Init == NewCacheWithCleanup /\ budget = MaxOps

\* a caller starts an exported call.  Idle callers are interchangeable, so the
\* call is given to the first idle one.
Begin(c) ==
  /\ pc[c] = "idle"
  /\ \A b \in Callers : b < c => pc[b] # "idle"
  /\ budget > 0
  /\ budget' = budget - 1

\* a Set that treats an overwrite as a removal followed by a creation and runs
\* the Delete handlers for the value it replaces
SetFiresDelete(c, k, v) ==
  /\ Begin(c)
  /\ data' = MapPut(data, k, StorageData(TRUE, now, 0, v))
  /\ ev' = Event("Set", c, k, v,
                 (IF k \in DOMAIN data
                  THEN processHooks(DeleteOperation, k, data[k].data)
                  ELSE <<>>) \o processHooks(CreateOperation, k, v),
                 NoRet)
  /\ fired' = [fired EXCEPT ![CreateOperation][k] = @ + 1,
                            ![DeleteOperation][k] = @ + (IF k \in DOMAIN data THEN 1 ELSE 0)]
  /\ UNCHANGED <<hooks, mu, wg, now, pc, key, val, op, swTodo, swSeen, registered>>

\* Set(key, data)
Set(c, k, v) ==
  /\ Begin(c)
  /\ data' = MapPut(data, k, StorageData(TRUE, now, 0, v))
  /\ ev' = Event("Set", c, k, v, processHooks(CreateOperation, k, v), NoRet)
  /\ fired' = [fired EXCEPT ![CreateOperation][k] = @ + 1]
  /\ UNCHANGED <<hooks, mu, wg, now, pc, key, val, op, swTodo, swSeen, registered>>

\* SetEx(key, data, duration)
SetEx(c, k, v, d) ==
  /\ Begin(c)
  /\ data' = MapPut(data, k, StorageData(FALSE, now, d, v))
  /\ ev' = Event("SetEx", c, k, v, processHooks(CreateOperation, k, v), NoRet)
  /\ fired' = [fired EXCEPT ![CreateOperation][k] = @ + 1]
  /\ UNCHANGED <<hooks, mu, wg, now, pc, key, val, op, swTodo, swSeen, registered>>

\* Get(key), lines 94-95 with removeIfExpired's test: the lookup, then the test
\* on the copy; an expired copy sends the caller into s.Delete(key)
Get(c, k) ==
  /\ Begin(c)
  /\ IF k \notin DOMAIN data
     THEN /\ ev' = Event("Get", c, k, Nil, <<>>, <<Nil, ErrCacheKeyNotFound>>)
          /\ UNCHANGED <<pc, key, val, op>>
     ELSE IF removeIfExpired(data[k], now)
     THEN /\ pc' = [pc EXCEPT ![c] = "del_read"]
          /\ key' = [key EXCEPT ![c] = k]
          /\ val' = [val EXCEPT ![c] = data[k]]
          /\ op' = [op EXCEPT ![c] = "Get"]
          /\ ev' = Event("Get", c, k, Nil, <<>>, NoRet)
     ELSE /\ ev' = Event("Get", c, k, Nil, <<>>, <<data[k].data, Nil>>)
          /\ UNCHANGED <<pc, key, val, op>>
  /\ UNCHANGED <<data, hooks, mu, wg, now, swTodo, swSeen, registered, fired>>

\* where a thread goes when s.Delete returns, and what its caller then gets
AfterDelete(t) == IF t = Sweeper THEN "range" ELSE "idle"
DeleteResult(t) ==
  IF op[t] = "Get" THEN <<Nil, ErrCacheKeyNotFound>> ELSE NoRet

\* Delete(key) called by a caller: line 104's lookup
Delete(c, k) ==
  /\ Begin(c)
  /\ ev' = Event("Delete", c, k, Nil, <<>>, NoRet)
  /\ IF k \in DOMAIN data
     THEN /\ pc' = [pc EXCEPT ![c] = "del_do"]
          /\ key' = [key EXCEPT ![c] = k]
          /\ val' = [val EXCEPT ![c] = data[k]]
          /\ op' = [op EXCEPT ![c] = "Delete"]
     ELSE UNCHANGED <<pc, key, val, op>>
  /\ UNCHANGED <<data, hooks, mu, wg, now, swTodo, swSeen, registered, fired>>

\* s.Delete(key) called from removeIfExpired (by Get or by the sweep): line 104
DeleteRead(t) ==
  /\ pc[t] = "del_read"
  /\ IF key[t] \in DOMAIN data
     THEN /\ pc' = [pc EXCEPT ![t] = "del_do"]
          /\ val' = [val EXCEPT ![t] = data[key[t]]]
          /\ ev' = Event("DeleteRead", t, key[t], Nil, <<>>, NoRet)
          /\ UNCHANGED <<key, op>>
     ELSE /\ pc' = [pc EXCEPT ![t] = AfterDelete(t)]
          /\ key' = [key EXCEPT ![t] = Nil]
          /\ val' = [val EXCEPT ![t] = NoData]
          /\ op' = [op EXCEPT ![t] = Nil]
          /\ ev' = Event("DeleteRead", t, key[t], Nil, <<>>, DeleteResult(t))
  /\ UNCHANGED <<data, hooks, mu, wg, now, swTodo, swSeen, registered, budget, fired>>

\* lines 105-106: delete(s.data, key), then the Delete hooks with the value read
DeleteDo(t) ==
  /\ pc[t] = "del_do"
  /\ data' = MapDel(data, key[t])
  /\ pc' = [pc EXCEPT ![t] = AfterDelete(t)]
  /\ key' = [key EXCEPT ![t] = Nil]
  /\ val' = [val EXCEPT ![t] = NoData]
  /\ op' = [op EXCEPT ![t] = Nil]
  /\ ev' = Event("DeleteDo", t, key[t], val[t].data,
                 processHooks(DeleteOperation, key[t], val[t].data),
                 DeleteResult(t))
  /\ fired' = [fired EXCEPT ![DeleteOperation][key[t]] = @ + 1]
  /\ UNCHANGED <<hooks, mu, wg, now, swTodo, swSeen, registered, budget>>

\* SetHook(operationType, handlerFunctions...): an existing kind appends to the
\* local copy of the slice header only; a new kind stores the argument slice
SetHookMap(kind, hs) ==
  IF kind \in DOMAIN hooks THEN hooks ELSE MapPut(hooks, kind, hs)

SetHook(c, kind, hs) ==
  /\ Begin(c)
  /\ hooks' = SetHookMap(kind, hs)
  /\ registered' = [registered EXCEPT ![kind] = @ \o hs]
  /\ ev' = Event("SetHook", c, kind, hs, <<>>, NoRet)
  /\ UNCHANGED <<data, mu, wg, now, pc, key, val, op, swTodo, swSeen, fired>>

\* StopCleanup(): the caller blocks sending on the unbuffered s.stop
StopCleanup(c) ==
  /\ Begin(c)
  /\ pc' = [pc EXCEPT ![c] = "stop_send"]
  /\ ev' = Event("StopCleanup", c, Nil, Nil, <<>>, NoRet)
  /\ UNCHANGED <<data, hooks, mu, wg, now, key, val, op, swTodo, swSeen, registered, fired>>

\* case <-s.stop: the cleanup loop takes one sender's value and returns; the
\* deferred wg.Done() runs; that sender's StopCleanup returns
StopRecv(c) ==
  /\ pc[Sweeper] = "select"
  /\ pc[c] = "stop_send"
  /\ pc' = [pc EXCEPT ![Sweeper] = "exited", ![c] = "idle"]
  /\ wg' = wg - 1
  /\ ev' = Event("StopRecv", c, Nil, Nil, <<>>, NoRet)
  /\ UNCHANGED <<data, hooks, mu, now, key, val, op, swTodo, swSeen, registered, budget, fired>>

\* case <-t.C: s.mu.Lock() and the range loop starts over the keys present
SweepLock ==
  /\ pc[Sweeper] = "select"
  /\ mu' = TRUE
  /\ pc' = [pc EXCEPT ![Sweeper] = "range"]
  /\ swTodo' = DOMAIN data
  /\ swSeen' = {}
  /\ ev' = Event("SweepLock", Sweeper, Nil, Nil, <<>>, NoRet)
  /\ UNCHANGED <<data, hooks, wg, now, key, val, op, registered, budget, fired>>

\* a range loop with an expiry test of its own, which leaves out the
\* isPersistence flag, instead of the removeIfExpired that Get calls
SweepNextOwnTest(k) ==
  /\ pc[Sweeper] = "range"
  /\ k \in (DOMAIN data) \ swSeen
  /\ swSeen' = swSeen \cup {k}
  /\ ev' = Event("SweepNext", Sweeper, k, Nil, <<>>, NoRet)
  /\ IF removeIfExpiredNoFlag(data[k], now)
     THEN /\ pc' = [pc EXCEPT ![Sweeper] = "del_read"]
          /\ key' = [key EXCEPT ![Sweeper] = k]
          /\ val' = [val EXCEPT ![Sweeper] = data[k]]
     ELSE UNCHANGED <<pc, key, val>>
  /\ UNCHANGED <<data, hooks, mu, wg, now, op, swTodo, registered, budget, fired>>

\* one iteration: the loop yields (key, sd) and removeIfExpired tests the copy.
\* An entry created during the loop may be produced or skipped.
SweepNext(k) ==
  /\ pc[Sweeper] = "range"
  /\ k \in (DOMAIN data) \ swSeen
  /\ swSeen' = swSeen \cup {k}
  /\ ev' = Event("SweepNext", Sweeper, k, Nil, <<>>, NoRet)
  /\ IF removeIfExpired(data[k], now)
     THEN /\ pc' = [pc EXCEPT ![Sweeper] = "del_read"]
          /\ key' = [key EXCEPT ![Sweeper] = k]
          /\ val' = [val EXCEPT ![Sweeper] = data[k]]
     ELSE UNCHANGED <<pc, key, val>>
  /\ UNCHANGED <<data, hooks, mu, wg, now, op, swTodo, registered, budget, fired>>

\* a loop that, after a pass, waits for the next tick alone instead of going
\* back to the select on s.stop and t.C
SweepUnlockNoSelect ==
  /\ pc[Sweeper] = "range"
  /\ (swTodo \cap DOMAIN data) \ swSeen = {}
  /\ mu' = FALSE
  /\ pc' = [pc EXCEPT ![Sweeper] = "tick"]
  /\ swTodo' = {}
  /\ swSeen' = {}
  /\ ev' = Event("SweepUnlock", Sweeper, Nil, Nil, <<>>, NoRet)
  /\ UNCHANGED <<data, hooks, wg, now, key, val, op, registered, budget, fired>>

\* the range loop ends and s.mu.Unlock() runs
SweepUnlock ==
  /\ pc[Sweeper] = "range"
  /\ (swTodo \cap DOMAIN data) \ swSeen = {}
  /\ mu' = FALSE
  /\ pc' = [pc EXCEPT ![Sweeper] = "select"]
  /\ swTodo' = {}
  /\ swSeen' = {}
  /\ ev' = Event("SweepUnlock", Sweeper, Nil, Nil, <<>>, NoRet)
  /\ UNCHANGED <<data, hooks, wg, now, key, val, op, registered, budget, fired>>

\* the clock moves on
Advance ==
  /\ now < MaxTime
  /\ now' = now + 1
  /\ ev' = Event("Advance", Sweeper, Nil, Nil, <<>>, NoRet)
  /\ UNCHANGED <<data, hooks, mu, wg, pc, key, val, op, swTodo, swSeen, registered, budget, fired>>

\* ---- what the claims speak of
NotFound == <<Nil, ErrCacheKeyNotFound>>
Found(v) == <<v, Nil>>

\* the handler calls one event makes when every handler registered for kind runs
\* once, in registration order, with (k, v)
Invocations(kind, k, v) ==
  [i \in 1..Len(registered[kind]) |-> <<kind, registered[kind][i], k, v>>]

IsWrite(e) == e.act \in {"Set", "SetEx"}
Present(k) == k \in DOMAIN data
Persistent(k) == Present(k) /\ data[k].isPersistence
Expiring(k) == Present(k) /\ ~data[k].isPersistence
Deadline(k) == data[k].setTime + data[k].expireDuration

\* C1: an entry written by Set stays in the mapping with its value, and no Delete
\* handler runs for it, until a Delete(k) call removes it or a later Set/SetEx on
\* k replaces it: no step of the sweep or of a Get removes it.
C1_PersistentNeverExpires ==
  [][\A k \in Keys :
       Persistent(k) =>
         \/ IsWrite(ev') /\ ev'.key = k
         \/ ev'.act = "DeleteDo" /\ ev'.key = k /\ op[ev'.t] = "Delete"
         \/ /\ k \in DOMAIN data'
            /\ data'[k] = data[k]
            /\ ~(ev'.act = "DeleteDo" /\ ev'.key = k)]_vars

\* C2: a Get(k) that is the very next step after Set(k, v) returns (v, nil),
\* whatever k held before the Set.
C2_RoundTrip ==
  [][(ev.act = "Set" /\ ev'.act = "Get" /\ ev'.key = ev.key)
       => ev'.ret = Found(ev.val)]_vars

\* a Get has just returned the value of the persistent entry written at this
\* instant, and the run made two calls: the Set and the Get
C2_Witness ==
  /\ ev.act = "Get"
  /\ budget = MaxOps - 2
  /\ Persistent(ev.key)
  /\ data[ev.key].setTime = now
  /\ ev.ret = Found(data[ev.key].data)

\* C3: while the clock is before setTime + expireDuration of the SetEx entry
\* for k, a Get(k) returns (v, nil), and neither a Get nor the sweep removes
\* the entry.
C3_LiveBeforeDeadline ==
  [][\A k \in Keys :
       (Expiring(k) /\ now < Deadline(k)) =>
         /\ (ev'.act = "Get" /\ ev'.key = k) => ev'.ret = Found(data[k].data)
         /\ (ev'.act = "DeleteDo" /\ ev'.key = k) => op[ev'.t] = "Delete"]_vars

\* C4: a Get(k) made when k has no entry returns not-found; a Get(k) made at or
\* after setTime + expireDuration of the SetEx entry for k does not return its
\* value, and the call returns not-found when it ends.
C4_NoStaleRead ==
  [][/\ ev'.act = "Get" =>
          /\ ~Present(ev'.key) => ev'.ret = NotFound
          /\ (Expiring(ev'.key) /\ now >= Deadline(ev'.key)) =>
                /\ ev'.ret = NoRet
                /\ pc'[ev'.t] = "del_read"
                /\ op'[ev'.t] = "Get"
     /\ (ev'.act \in {"DeleteRead", "DeleteDo"} /\ op[ev'.t] = "Get") =>
          /\ ev'.ret \in {NoRet, NotFound}
          /\ pc'[ev'.t] = "idle" => ev'.ret = NotFound]_vars

\* a Get that met an entry past its deadline has removed it and returned
\* not-found
C4_Witness ==
  /\ ev.act = "DeleteDo"
  /\ ev.t \in Callers
  /\ ev.ret = NotFound
  /\ ~Present(ev.key)

\* C5: every event of a kind runs all the handlers that the SetHook calls for
\* that kind were given, in call order, each once.
C5_HooksAppend ==
  /\ IsWrite(ev) => ev.calls = Invocations(CreateOperation, ev.key, ev.val)
  /\ ev.act = "DeleteDo" => ev.calls = Invocations(DeleteOperation, ev.key, ev.val)

\* no other thread is inside s.Delete for the key of the step's thread
AloneOn(t, k) == \A u \in Threads \ {t} : key[u] # k

\* C6: Delete(k) on a key with no entry changes nothing and runs no handler;
\* Delete(k) on a key with an entry removes that entry only and runs every
\* registered Delete handler once with (k, the value it removes).
C6_DeleteContract ==
  [][/\ (ev'.act = "Delete" /\ ~Present(ev'.key)) =>
          /\ data' = data
          /\ ev'.calls = <<>>
          /\ pc'[ev'.t] = "idle"
     /\ (ev'.act = "DeleteDo" /\ op[ev'.t] = "Delete" /\ AloneOn(ev'.t, ev'.key)) =>
          /\ Present(ev'.key)
          /\ data' = MapDel(data, ev'.key)
          /\ ev'.calls = Invocations(DeleteOperation, ev'.key, data[ev'.key].data)]_vars

\* C7: a Set or SetEx on k leaves k with the new value and the new policy,
\* stamped at the call, and every other key as it was; it runs every registered
\* Create handler once with (k, new value); a Get right after it returns no
\* other value than the new one.
C7_Overwrite ==
  [][/\ IsWrite(ev') =>
          /\ ev'.key \in DOMAIN data'
          /\ data'[ev'.key].isPersistence = (ev'.act = "Set")
          /\ data'[ev'.key].setTime = now
          /\ data'[ev'.key].data = ev'.val
          /\ \A j \in Keys \ {ev'.key} :
               /\ (j \in DOMAIN data') = Present(j)
               /\ Present(j) => data'[j] = data[j]
          /\ ev'.calls = Invocations(CreateOperation, ev'.key, ev'.val)
     /\ (IsWrite(ev) /\ ev'.act = "Get" /\ ev'.key = ev.key) =>
          ev'.ret \in {Found(ev.val), NotFound, NoRet}]_vars

\* C8: when the sweep removes an entry that no caller touched, it removes that
\* entry and runs every registered Delete handler once with its key and value.
C8_SweepFiresOnce ==
  [][(/\ ev'.act = "DeleteDo"
      /\ ev'.t = Sweeper
      /\ Present(ev'.key)
      /\ data[ev'.key] = val[Sweeper]
      /\ AloneOn(Sweeper, ev'.key)) =>
        /\ data' = MapDel(data, ev'.key)
        /\ ev'.calls = Invocations(DeleteOperation, ev'.key, data[ev'.key].data)]_vars

SweepActs == {"SweepLock", "SweepNext", "SweepUnlock"}

\* C9: once StopCleanup has returned the cleanup goroutine takes no step; a
\* Get on an entry past its deadline still goes on to remove the entry, return
\* not-found and run the registered Delete handlers.
C9_StopThenLazy ==
  [][pc[Sweeper] = "exited" =>
       /\ pc'[Sweeper] = "exited"
       /\ ev'.act \notin SweepActs
       /\ ev'.t # Sweeper \/ ev'.act = "Advance"
       /\ (ev'.act = "Get" /\ Expiring(ev'.key) /\ now >= Deadline(ev'.key)) =>
            pc'[ev'.t] = "del_read"
       /\ (ev'.act = "DeleteDo" /\ op[ev'.t] = "Get" /\ AloneOn(ev'.t, ev'.key)) =>
            /\ ev'.ret = NotFound
            /\ Present(ev'.key)
            /\ data' = MapDel(data, ev'.key)
            /\ ev'.calls = Invocations(DeleteOperation, ev'.key, data[ev'.key].data)]_vars

\* C10: every StopCleanup call returns: a caller blocked sending on s.stop
\* still has the cleanup loop to receive from it.
C10_StopReturns ==
  \A c \in Callers : pc[c] = "stop_send" => pc[Sweeper] # "exited"

\* C11: Delete handlers run once per removed entry: every step that runs them
\* removes an entry that is in the mapping, whichever of Get, the sweep and
\* Delete raced to it.
C11_NoDoubleFire ==
  [][(ev'.act = "DeleteDo" /\ ev'.calls # <<>>) => Present(ev'.key)]_vars

\* C12: the removal a Get makes for an expired entry never takes a fresh entry:
\* what it removes is expired by removeIfExpired's own test, and the value its
\* handlers get is the value of the entry it removes.
C12_NoLostUpdate ==
  [][(ev'.act = "DeleteDo" /\ op[ev'.t] = "Get" /\ Present(ev'.key)) =>
       /\ removeIfExpired(data[ev'.key], now)
       /\ ev'.val = data[ev'.key].data]_vars

CallerDataActs == {"Set", "SetEx", "Get", "Delete"}

\* C13: while the cleanup loop holds s.mu for its pass, no caller step reads or
\* writes s.data.
C13_LockDiscipline ==
  [][mu =>
       /\ ev'.act \notin CallerDataActs
       /\ ev'.act \in {"DeleteRead", "DeleteDo"} => ev'.t = Sweeper]_vars

\* C14: a Get on an entry past its deadline goes on to remove it: it returns
\* not-found, removes that entry and no other, and runs every registered Delete
\* handler once with the key and the expired value; the next Get on the same
\* key, straight after, returns not-found, changes nothing and runs no handler.
C14_LazyExpiration ==
  [][/\ (ev'.act = "Get" /\ Expiring(ev'.key) /\ now >= Deadline(ev'.key)) =>
          (pc'[ev'.t] = "del_read" /\ data' = data /\ ev'.calls = <<>>)
     /\ (ev'.act = "DeleteDo" /\ op[ev'.t] = "Get" /\ AloneOn(ev'.t, ev'.key)) =>
          /\ ev'.ret = NotFound
          /\ Present(ev'.key)
          /\ ~data[ev'.key].isPersistence
          /\ data' = MapDel(data, ev'.key)
          /\ ev'.calls = Invocations(DeleteOperation, ev'.key, data[ev'.key].data)
     /\ (ev.act = "DeleteDo" /\ ev.ret = NotFound /\ ev'.act = "Get" /\ ev'.key = ev.key) =>
          (ev'.ret = NotFound /\ data' = data /\ ev'.calls = <<>>)]_vars

\* C15: a StopCleanup call made while the cleanup goroutine runs returns,
\* whatever the goroutine is doing at the time, and it returns only with the
\* goroutine having received the stop signal and left its loop.
C15_StopTerminates ==
  /\ (pc[1] = "stop_send" /\ pc[Sweeper] # "exited") ~> (pc[1] = "idle" /\ pc[Sweeper] = "exited")
  /\ [][(pc[1] = "stop_send" /\ pc'[1] # "stop_send") => (pc'[Sweeper] = "exited" /\ wg' = 0)]_vars

\* the call was made in the middle of a pass and has returned
C15_Witness ==
  ev.act = "StopRecv" /\ pc[1] = "idle" /\ pc[Sweeper] = "exited" /\ wg = 0

\* the handler sequence s.hooks holds for a kind, empty when the kind has no entry
HookSeq(kind) == IF kind \in DOMAIN hooks THEN hooks[kind] ELSE <<>>

\* the calls made are the handlers s.hooks holds for kind, each once, in order
OnlyKind(calls, kind) ==
  /\ Len(calls) = Len(HookSeq(kind))
  /\ \A i \in 1..Len(calls) : calls[i][1] = kind /\ calls[i][2] = HookSeq(kind)[i]

GetResult(m, k, t) ==
  IF k \notin DOMAIN m THEN NotFound
  ELSE IF removeIfExpired(m[k], t) THEN NotFound
  ELSE Found(m[k].data)

\* C17: when the Create handlers of a Set, or of a SetEx with a positive
\* duration, are invoked, a Get on the key from inside a handler returns the
\* value just written; when Delete handlers are invoked the key has no entry.
C17_HandlersSeeWrite ==
  [][/\ (/\ IsWrite(ev')
         /\ ev'.calls # <<>>
         /\ (ev'.act = "Set" \/ data'[ev'.key].expireDuration > 0)) =>
          GetResult(data', ev'.key, now') = Found(ev'.val)
     /\ (ev'.act = "DeleteDo" /\ ev'.calls # <<>>) => ev'.key \notin DOMAIN data']_vars

\* a sweep iteration on k is possible and Get(k) can be called by caller 1
BothPaths(k) ==
  /\ pc[Sweeper] = "range"
  /\ k \in (DOMAIN data) \ swSeen
  /\ pc[1] = "idle"
  /\ budget > 0

\* C18: at any instant the sweep's iteration on an entry goes on to remove it
\* exactly when a Get on its key at that instant goes on to remove it, both
\* with the same key and the same copy of the entry, hence the same Delete
\* event; neither path goes on to remove a persistent entry.
C18_LazyActiveAgree ==
  \A k \in Keys :
    BothPaths(k) =>
      /\ (ENABLED (SweepNext(k) /\ pc'[Sweeper] = "del_read"))
           = (ENABLED (Get(1, k) /\ pc'[1] = "del_read"))
      /\ (ENABLED (SweepNext(k) /\ pc'[Sweeper] = "del_read" /\ key'[Sweeper] = k /\ val'[Sweeper] = data[k]))
           = (ENABLED (Get(1, k) /\ pc'[1] = "del_read" /\ key'[1] = k /\ val'[1] = data[k]))
      /\ Persistent(k) =>
           /\ ~ENABLED (SweepNext(k) /\ pc'[Sweeper] = "del_read")
           /\ ~ENABLED (Get(1, k) /\ pc'[1] = "del_read")

\* the sweep and a Get can both act on an entry that is due for removal
C18_Witness ==
  \E k \in Keys :
    /\ BothPaths(k)
    /\ ENABLED (SweepNext(k) /\ pc'[Sweeper] = "del_read")
    /\ ENABLED (Get(1, k) /\ pc'[1] = "del_read")

\* C19: a Get on a key with no entry, with a persistent entry or with an entry
\* whose deadline has not come returns at once, leaving s.data and s.hooks as
\* they were and invoking no handler; the one change a Get makes, when it goes
\* on to a removal, is to take the entry of its own key out of s.data.
C19_GetPureRead ==
  [][/\ (/\ ev'.act = "Get"
         /\ (~Present(ev'.key) \/ Persistent(ev'.key) \/ now < Deadline(ev'.key))) =>
          /\ pc'[ev'.t] = "idle"
          /\ data' = data
          /\ hooks' = hooks
          /\ ev'.calls = <<>>
     /\ (ev'.act \in {"Get", "DeleteRead"} /\ op'[ev'.t] = "Get") =>
          (data' = data /\ hooks' = hooks)
     /\ (ev'.act = "DeleteDo" /\ op[ev'.t] = "Get") =>
          (data' = MapDel(data, ev'.key) /\ hooks' = hooks)]_vars

\* C20: a Set or SetEx, on a key with an entry or without, invokes Create
\* handlers only; in a run whose operations do not overlap every Delete event
\* of a key removes the key's entry and every removal of a key's entry is a
\* Delete event of that key, an entry appears only with a Create event of its
\* key, and the Delete events of a key never outnumber its Create events.
C20_OverwriteNoDelete ==
  /\ [](\A k \in Keys : fired[DeleteOperation][k] <= fired[CreateOperation][k])
  /\ [][/\ IsWrite(ev') => OnlyKind(ev'.calls, CreateOperation)
        /\ ev'.act = "DeleteDo" =>
             (Present(ev'.key) /\ data' = MapDel(data, ev'.key))
        /\ \A k \in Keys :
             /\ (Present(k) /\ k \notin DOMAIN data') =>
                  (ev'.act = "DeleteDo" /\ ev'.key = k)
             /\ (~Present(k) /\ k \in DOMAIN data') =>
                  (IsWrite(ev') /\ ev'.key = k)]_vars

\* a key was written twice with Create and Delete handlers in place, and no
\* Delete event has happened
C20_Witness ==
  \E k \in Keys :
    /\ IsWrite(ev)
    /\ ev.key = k
    /\ ev.calls # <<>>
    /\ fired[CreateOperation][k] = 2
    /\ fired[DeleteOperation][k] = 0
    /\ DeleteOperation \in DOMAIN hooks

Next ==
  \/ \E c \in Callers, k \in Keys, v \in Values : Set(c, k, v)
  \/ \E c \in Callers, k \in Keys, v \in Values, d \in Durations : SetEx(c, k, v, d)
  \/ \E c \in Callers, k \in Keys : Get(c, k)
  \/ \E c \in Callers, k \in Keys : Delete(c, k)
  \/ \E t \in Threads : DeleteRead(t)
  \/ \E t \in Threads : DeleteDo(t)
  \/ \E c \in Callers, kind \in OperationType, hs \in HandlerLists : SetHook(c, kind, hs)
  \/ \E c \in Callers : StopCleanup(c)
  \/ \E c \in Callers : StopRecv(c)
  \/ SweepLock
  \/ \E k \in Keys : SweepNext(k)
  \/ SweepUnlock
  \/ Advance

Spec == Init /\ [][Next]_vars

\* One caller goroutine making up to MaxSeqOps calls one after another, with
\* the cleanup goroutine running beside it: it registers Delete handlers,
\* writes one value, reads, deletes and stops the cleanup.
InitSeq == NewCacheWithCleanup /\ budget = MaxSeqOps

NextSeq ==
  \/ \E k \in Keys : Set(1, k, "v1")
  \/ \E k \in Keys, d \in 0..MaxDur : SetEx(1, k, "v1", d)
  \/ \E k \in Keys : Get(1, k)
  \/ \E k \in Keys : Delete(1, k)
  \/ \E t \in Threads : DeleteRead(t)
  \/ \E t \in Threads : DeleteDo(t)
  \/ \E hs \in HandlerLists : SetHook(1, DeleteOperation, hs)
  \/ StopCleanup(1)
  \/ StopRecv(1)
  \/ SweepLock
  \/ \E k \in Keys : SweepNext(k)
  \/ SweepUnlock
  \/ Advance

SpecSeq == InitSeq /\ [][NextSeq]_vars

\* One caller, the cleanup goroutine and the clock, for the stop handshake: the
\* caller fills the cache with entries that expire at once, registers a Delete
\* handler and calls StopCleanup while the cleanup loop is anywhere in its pass.
InitStop == NewCacheWithCleanup /\ budget = MaxStopOps

NextStop ==
  \/ \E k \in Keys : SetEx(1, k, "v1", 0)
  \/ SetHook(1, DeleteOperation, <<"h1">>)
  \/ StopCleanup(1)
  \/ StopRecv(1)
  \/ SweepLock
  \/ \E k \in Keys : SweepNext(k)
  \/ SweepUnlock
  \/ DeleteRead(Sweeper)
  \/ DeleteDo(Sweeper)
  \/ Advance

\* the steps of one pass of cleanupLoop, from the range loop to the unlock
PassStep ==
  \/ \E k \in Keys : SweepNext(k)
  \/ DeleteRead(Sweeper)
  \/ DeleteDo(Sweeper)
  \/ SweepUnlock

\* The cleanup goroutine is scheduled, so a pass runs to its end (handlers
\* return); each time it is back at the select with a sender waiting on s.stop
\* the receive is ready, and a select does not pass a ready case over forever.
FairStop == WF_vars(PassStep) /\ SF_vars(StopRecv(1))

SpecStop == InitStop /\ [][NextStop]_vars /\ FairStop

\* A run whose operations do not overlap: while a thread is inside an
\* operation (a Get or Delete between its lookup and its return, the cleanup
\* loop inside a pass) no other thread takes a step.
Inside(t) == pc[t] \in {"range", "del_read", "del_do"}
Quiet(t) == \A u \in Threads \ {t} : ~Inside(u)

InitSerial == NewCacheWithCleanup /\ budget = MaxSerialOps

NextSerial ==
  \/ \E c \in Callers, k \in Keys, v \in Values : Quiet(c) /\ Set(c, k, v)
  \/ \E c \in Callers, k \in Keys, v \in Values, d \in Durations :
       Quiet(c) /\ SetEx(c, k, v, d)
  \/ \E c \in Callers, k \in Keys : Quiet(c) /\ Get(c, k)
  \/ \E c \in Callers, k \in Keys : Quiet(c) /\ Delete(c, k)
  \/ \E t \in Threads : Quiet(t) /\ DeleteRead(t)
  \/ \E t \in Threads : Quiet(t) /\ DeleteDo(t)
  \/ \E c \in Callers, kind \in OperationType, hs \in HandlerLists :
       Quiet(c) /\ SetHook(c, kind, hs)
  \/ \E c \in Callers : Quiet(c) /\ StopCleanup(c)
  \/ \E c \in Callers : Quiet(c) /\ StopRecv(c)
  \/ Quiet(Sweeper) /\ SweepLock
  \/ \E k \in Keys : Quiet(Sweeper) /\ SweepNext(k)
  \/ Quiet(Sweeper) /\ SweepUnlock
  \/ Advance

SpecSerial == InitSerial /\ [][NextSerial]_vars

====
